---- MODULE Spec2Model ----
(***************************************************************************)
(* Model of src/main.py: the league database (players, events, results),   *)
(* the CSV upload handler upload_results, the administrative create_event  *)
(* handler and the standings query of read_standings.                      *)
(*                                                                         *)
(* Reading of upload_results.  Lines 225-241 of src/main.py are written    *)
(* one level too far to the left and lines 244-274 follow the body of      *)
(* `if not event:` at its indentation.  The model keeps that block         *)
(* structure: the handler's body is lines 225-274, and everything from     *)
(* "Read CSV" to the final return belongs to the `if not event:` suite.    *)
(*                                                                         *)
(* Scheduling.  The database is the file pinball.db (line 17); requests    *)
(* are served by worker processes that share it.  One step of a worker is  *)
(* one statement that talks to the database (a query, or a commit with     *)
(* the flush it implies) together with the local statements up to the      *)
(* next one.  SQLite serialises the statements themselves.                 *)
(*                                                                         *)
(* Text is a sequence of one-character strings.  The rows of an uploaded   *)
(* file are drawn when csv.DictReader reaches them (line 250); the number  *)
(* of rows of the file is drawn when the request arrives.                  *)
(***************************************************************************)
EXTENDS Integers, Sequences, FiniteSets, TLC

\* ---------------------------------------------------------------- bounds
\* Most write requests (uploads and administrative creations) in a run.
MaxCalls == 2
\* Most rows the results table is let grow to, and so most rows of a file.
MaxResults == 3
\* Positions probed by the scoring-table specification are -MaxPos..MaxPos.
MaxPos == 60

\* The worker processes serving requests.
Workers == {"w1", "w2"}

\* SQL NULL / Python None.
None == "None"

\* ------------------------------------------------------------------ text
Digits == {"0", "1", "2", "3", "4", "5", "6", "7", "8", "9"}

DigitVal(c) ==
    CASE c = "0" -> 0 [] c = "1" -> 1 [] c = "2" -> 2 [] c = "3" -> 3
      [] c = "4" -> 4 [] c = "5" -> 5 [] c = "6" -> 6 [] c = "7" -> 7
      [] c = "8" -> 8 [] c = "9" -> 9

\* Code point of a character (for the BINARY collation of ORDER BY name).
CharCode(c) ==
    CASE c = " " -> 32 [] c = "-" -> 45 [] c \in Digits -> 48 + DigitVal(c)
      [] c = "A" -> 65 [] c = "B" -> 66 [] c = "C" -> 67 [] c = "x" -> 120

RECURSIVE LStrip(_)
LStrip(s) == IF s # <<>> /\ Head(s) = " " THEN LStrip(Tail(s)) ELSE s

RECURSIVE RStrip(_)
RStrip(s) ==
    IF s # <<>> /\ s[Len(s)] = " " THEN RStrip(SubSeq(s, 1, Len(s) - 1)) ELSE s

\* str.strip()
Strip(s) == RStrip(LStrip(s))

RECURSIVE DigitsValue(_, _)
DigitsValue(s, acc) ==
    IF s = <<>> THEN acc ELSE DigitsValue(Tail(s), 10 * acc + DigitVal(Head(s)))

\* int(text): surrounding blanks ignored, one optional sign, then at least
\* one digit and nothing else; anything else raises ValueError.
ParseInt(text) ==
    LET t == Strip(text)
        neg == t # <<>> /\ Head(t) = "-"
        body == IF neg THEN Tail(t) ELSE t
        good == body # <<>> /\ \A i \in 1..Len(body) : body[i] \in Digits
    IN  IF good
        THEN [ok |-> TRUE,
              val |-> IF neg THEN 0 - DigitsValue(body, 0) ELSE DigitsValue(body, 0)]
        ELSE [ok |-> FALSE, val |-> 0]

\* str.split(sep): the pieces between occurrences of sep.
RECURSIVE SplitAcc(_, _, _, _)
SplitAcc(s, sep, cur, acc) ==
    IF s = <<>> THEN Append(acc, cur)
    ELSE IF Head(s) = sep THEN SplitAcc(Tail(s), sep, <<>>, Append(acc, cur))
    ELSE SplitAcc(Tail(s), sep, Append(cur, Head(s)), acc)

Split(s, sep) == SplitAcc(s, sep, <<>>, <<>>)

\* ----------------------------------------------------------------- dates
IsLeap(y) == (y % 4 = 0 /\ y % 100 # 0) \/ y % 400 = 0

DaysInMonth(y, m) ==
    IF m = 2 THEN (IF IsLeap(y) THEN 29 ELSE 28)
    ELSE IF m \in {4, 6, 9, 11} THEN 30 ELSE 31

\* y, m, d = [int(x) for x in event_date.split("-")]; date(y, m, d)
ParseDate(text) ==
    LET parts == Split(text, "-")
        nums == [i \in 1..Len(parts) |-> ParseInt(parts[i])]
        ints == \A i \in 1..Len(parts) : nums[i].ok
        y == nums[1].val
        m == nums[2].val
        d == nums[3].val
    IN  IF ints /\ Len(parts) = 3
           /\ y >= 1 /\ y <= 9999 /\ m >= 1 /\ m <= 12
           /\ d >= 1 /\ d <= DaysInMonth(y, m)
        THEN [ok |-> TRUE, val |-> <<y, m, d>>]
        ELSE [ok |-> FALSE, val |-> <<0, 0, 0>>]

\* --------------------------------------------------------------- scoring
\* POINTS_TABLE
POINTS_TABLE ==
    [p \in 1..10 |->
        CASE p = 1 -> 25 [] p = 2 -> 18 [] p = 3 -> 15 [] p = 4 -> 12
          [] p = 5 -> 10 [] p = 6 -> 8 [] p = 7 -> 6 [] p = 8 -> 4
          [] p = 9 -> 2 [] p = 10 -> 1]

\* A lookup whose default is 1 point.
PointsForDefaultOne(position) ==
    IF position \in DOMAIN POINTS_TABLE THEN POINTS_TABLE[position] ELSE 1

\* A scoring table that pays position 10 nothing and rejects nothing else.
PointsForTopNine(position) ==
    IF position \in 1..9 THEN POINTS_TABLE[position] ELSE 0

\* POINTS_TABLE.get(position, 0)
PointsFor(position) ==
    IF position \in DOMAIN POINTS_TABLE THEN POINTS_TABLE[position] ELSE 0

\* ---------------------------------------------------------------- inputs
\* Form field event_name.
EventNames == {"Cup", "Open"}

\* Form field event_date; the last one names no calendar day.
DateTexts ==
    { <<"2", "0", "2", "4", "-", "0", "5", "-", "0", "1">>,
      <<"2", "0", "2", "4", "-", "0", "2", "-", "3", "0">> }

\* Column "player" of a row.
PlayerTexts == { <<"A">>, <<" ", "A">>, <<"B">> }

\* Column "position" of a row.
PositionTexts == { <<"1">>, <<"1", "1">>, <<"x">> }

\* Column "position" of a row in the runs with two uploads side by side.
RacePositionTexts == { <<"1">>, <<"x">> }

\* Form field event_date in the runs that read the event pages.
PageDateTexts ==
    { <<"2", "0", "2", "4", "-", "0", "4", "-", "3", "0">>,
      <<"2", "0", "2", "4", "-", "0", "5", "-", "0", "1">> }

\* date.today() in the runs that read the event pages.
Todays == { <<2024, 4, 30>>, <<2024, 5, 1>>, <<2024, 5, 2>> }

\* Column "player" of a row in the runs that read the event pages.
PagePlayerTexts == { <<"A">>, <<"B">> }

\* Column "position" of a row in the runs that read the event pages.
PagePositionTexts == { <<"1">>, <<"1", "1">> }

\* Column "player" of a row in the runs with rows that ought to be rejected.
BlankPlayerTexts == { <<"A">>, <<" ">> }

\* Column "position" of a row in the runs with rows that ought to be rejected.
SignedPositionTexts == { <<"1">>, <<"0">>, <<"-", "1">> }

\* Column "position" of a row in the runs over the scoring of stored rows.
TablePositionTexts ==
    { <<"1">>, <<"1", "0">>, <<"1", "1">>, <<"0">> }

\* Optional form fields of create_event: absent, empty, or some text.
MetaTexts == { None, "", "7:00 PM" }

\* ----------------------------------------------------------------- state
VARIABLES
    players,    \* table players: rows [id, name]
    events,     \* table events: rows [id, name, event_date, start_time, ...]
    results,    \* table results: rows [id, event_id, player_id, position, points]
    pc,         \* where each worker's upload_results call stands
    local,      \* each worker's locals and session of upload_results
    response,   \* the standings page served since the last write request arrived
    calls,      \* write requests received so far
    scored      \* the last lookup of the scoring-table specification

vars == <<players, events, results, pc, local, response, calls, scored>>

db == [players |-> players, events |-> events, results |-> results]

NoLocal ==
    [event_name |-> None, ev_date |-> <<0, 0, 0>>, nfile |-> 0, row |-> 0,
     event |-> 0, player_name |-> <<>>, position |-> 0, pending |-> <<>>,
     outcome |-> None,
     before |-> [players |-> <<>>, events |-> <<>>, results |-> <<>>]]

\* Base.metadata.create_all on a fresh pinball.db: three empty tables.
Init ==
    /\ players = <<>>
    /\ events = <<>>
    /\ results = <<>>
    /\ pc = [w \in Workers |-> "idle"]
    /\ local = [w \in Workers |-> NoLocal]
    /\ response = [kind |-> None]
    /\ calls = 0
    /\ scored = [position |-> 0, points |-> -1]

\* ---------------------------------------------------------------- tables
Range(s) == {s[i] : i \in 1..Len(s)}

\* class Player
Player(id, name) == [id |-> id, name |-> name]

\* class Event
Event(id, name, event_date, start_time, location, format, registration_url, description) ==
    [id |-> id, name |-> name, event_date |-> event_date,
     start_time |-> start_time, location |-> location, format |-> format,
     registration_url |-> registration_url, description |-> description]

\* class Result
Result(id, event_id, player_id, position, points) ==
    [id |-> id, event_id |-> event_id, player_id |-> player_id,
     position |-> position, points |-> points]

\* A players table without the unique index on name.
NoUniqueIndex(name, tbl) == TRUE

\* Column(String, unique=True): an INSERT of `name` into players passes the
\* unique index exactly when no row carries that name.
PlayerNameUnique(name, tbl) == \A i \in 1..Len(tbl) : tbl[i].name # name

\* A flush that rewrites the table from the session's objects alone.
FlushReplacing(tbl, pending) ==
    [i \in 1..Len(pending) |->
        Result(i, pending[i].event_id, pending[i].player_id,
               pending[i].position, pending[i].points)]

\* INSERT of the session's pending Result objects, ids in insertion order.
RECURSIVE Flush(_, _)
Flush(tbl, pending) ==
    IF pending = <<>> THEN tbl
    ELSE Flush(Append(tbl,
                      Result(Len(tbl) + 1, Head(pending).event_id,
                             Head(pending).player_id, Head(pending).position,
                             Head(pending).points)),
               Tail(pending))

\* An event lookup whose date comparison never succeeds.
MatchingEventsNever(tbl, name, ev_date) ==
    {i \in 1..Len(tbl) : tbl[i].name = name /\ tbl[i].event_date = <<0, 0, 0>>}

\* filter(Event.name == event_name, Event.event_date == ev_date)
MatchingEvents(tbl, name, ev_date) ==
    {i \in 1..Len(tbl) : tbl[i].name = name /\ tbl[i].event_date = ev_date}

\* A player lookup that finds nothing.
MatchingPlayersNone(tbl, name) == {}

\* filter_by(name=player_name)
MatchingPlayers(tbl, name) == {i \in 1..Len(tbl) : tbl[i].name = name}

\* ------------------------------------------------------------- standings
\* Text comparison of the BINARY collation: code point by code point, a
\* proper prefix first.
RECURSIVE TextLess(_, _)
TextLess(a, b) ==
    IF b = <<>> THEN FALSE
    ELSE IF a = <<>> THEN TRUE
    ELSE IF CharCode(Head(a)) # CharCode(Head(b))
         THEN CharCode(Head(a)) < CharCode(Head(b))
    ELSE TextLess(Tail(a), Tail(b))

\* join(Result): the players row a results row refers to, if any.
JoinedPlayers(ptbl, r) == {i \in 1..Len(ptbl) : ptbl[i].id = r.player_id}

\* group_by(Player.id) with func.sum(Result.points): one group per player
\* that some scanned results row joins, in the order the scan meets them.
RECURSIVE GroupByPlayer(_, _, _)
GroupByPlayer(ptbl, scan, groups) ==
    IF scan = <<>> THEN groups
    ELSE LET r == Head(scan)
             js == JoinedPlayers(ptbl, r)
         IN  IF js = {} THEN GroupByPlayer(ptbl, Tail(scan), groups)
             ELSE LET p == ptbl[CHOOSE i \in js : TRUE]
                      at == {g \in 1..Len(groups) : groups[g].id = p.id}
                  IN  IF at = {}
                      THEN GroupByPlayer(ptbl, Tail(scan),
                               Append(groups, [id |-> p.id, name |-> p.name,
                                               total_points |-> r.points]))
                      ELSE LET g == CHOOSE x \in at : TRUE
                           IN  GroupByPlayer(ptbl, Tail(scan),
                                   [groups EXCEPT ![g].total_points = @ + r.points])

\* An ordering by points alone.
OrderedBeforeByPointsOnly(g, h) == g.total_points > h.total_points

\* order_by(func.sum(Result.points).desc(), Player.name.asc())
OrderedBefore(g, h) ==
    \/ g.total_points > h.total_points
    \/ g.total_points = h.total_points /\ TextLess(g.name, h.name)

\* The sorter: each group goes in front of the first one it is ordered before.
RECURSIVE InsertOrdered(_, _)
InsertOrdered(g, sorted) ==
    IF sorted = <<>> THEN <<g>>
    ELSE IF OrderedBefore(g, Head(sorted)) THEN <<g>> \o sorted
    ELSE <<Head(sorted)>> \o InsertOrdered(g, Tail(sorted))

RECURSIVE OrderBy(_, _)
OrderBy(groups, sorted) ==
    IF groups = <<>> THEN sorted
    ELSE OrderBy(Tail(groups), InsertOrdered(Head(groups), sorted))

\* The query of read_standings over the tables, scanning results in the
\* order `scan`: rows (name, total_points).
StandingsOf(ptbl, scan) ==
    LET sorted == OrderBy(GroupByPlayer(ptbl, scan, <<>>), <<>>)
    IN  [i \in 1..Len(sorted) |-> <<sorted[i].name, sorted[i].total_points>>]

\* A standings query that leaves out players without points.
StandingsScorersOnly ==
    SelectSeq(StandingsOf(players, results), LAMBDA row : row[2] > 0)

\* q.all() of read_standings on the committed tables.
Standings == StandingsOf(players, results)

\* -------------------------------------------------------- upload_results
\* The request ends: get_db closes the session, pending objects are dropped.
Finish(w, outcome) ==
    /\ pc' = [pc EXCEPT ![w] = "idle"]
    /\ local' = [local EXCEPT ![w].outcome = outcome, ![w].pending = <<>>,
                              ![w].player_name = <<>>, ![w].position = 0]

\* Rows of w's file that may still reach the results table.
Outstanding(w) ==
    IF pc[w] = "idle" THEN 0
    ELSE local[w].nfile - (local[w].row - Len(local[w].pending))

RECURSIVE OutstandingOf(_)
OutstandingOf(S) ==
    IF S = {} THEN 0
    ELSE LET w == CHOOSE v \in S : TRUE IN Outstanding(w) + OutstandingOf(S \ {w})

\* POST /admin/upload arrives at worker w; the event date is parsed
\* (lines 226-227).  A date that does not parse raises ValueError.
UploadStart(w, event_name, event_date, nfile) ==
    /\ pc[w] = "idle"
    /\ calls < MaxCalls
    /\ Len(results) + OutstandingOf(Workers) + nfile <= MaxResults
    /\ calls' = calls + 1
    /\ LET d == ParseDate(event_date)
           fresh == [NoLocal EXCEPT !.event_name = event_name, !.nfile = nfile,
                                    !.before = db]
       IN  IF d.ok
           THEN /\ pc' = [pc EXCEPT ![w] = "find_event"]
                /\ local' = [local EXCEPT ![w] = [fresh EXCEPT !.ev_date = d.val]]
           ELSE /\ pc' = pc
                /\ local' = [local EXCEPT ![w] = [fresh EXCEPT !.outcome = "ValueError"]]
    /\ response' = [kind |-> None]
    /\ UNCHANGED <<players, events, results, scored>>

\* A lookup that resets the descriptive fields of the event it finds.
FindEventUpdating(w) ==
    /\ pc[w] = "find_event"
    /\ LET found == MatchingEvents(events, local[w].event_name, local[w].ev_date)
       IN  IF found = {}
           THEN /\ pc' = [pc EXCEPT ![w] = "add_event"]
                /\ local' = local
                /\ events' = events
           ELSE \E e \in found :
                    /\ pc' = [pc EXCEPT ![w] = "idle"]
                    /\ local' = [local EXCEPT ![w].event = events[e].id,
                                              ![w].outcome = "null"]
                    /\ events' = [events EXCEPT ![e] =
                           Event(events[e].id, events[e].name, events[e].event_date,
                                 None, None, None, None, None)]
    /\ UNCHANGED <<players, results, response, calls, scored>>

\* Lines 230-237: the lookup of the event.  first() carries no ORDER BY, so
\* any matching row may be the one returned.  With an event found, the
\* whole `if not event:` suite is skipped and the handler returns None.
FindEvent(w) ==
    /\ pc[w] = "find_event"
    /\ LET found == MatchingEvents(events, local[w].event_name, local[w].ev_date)
       IN  IF found = {}
           THEN /\ pc' = [pc EXCEPT ![w] = "add_event"]
                /\ local' = local
           ELSE \E e \in found :
                    /\ pc' = [pc EXCEPT ![w] = "idle"]
                    /\ local' = [local EXCEPT ![w].event = events[e].id,
                                              ![w].outcome = "null"]
    /\ UNCHANGED <<players, events, results, response, calls, scored>>

\* An upload whose new event never reaches the table.
AddEventLost(w) ==
    /\ pc[w] = "add_event"
    /\ local' = [local EXCEPT ![w].event = Len(events) + 1]
    /\ pc' = [pc EXCEPT ![w] = "rows"]
    /\ UNCHANGED <<players, events, results, response, calls, scored>>

\* Lines 238-248: the event is added, committed and refreshed; the file is
\* read and handed to csv.DictReader.
AddEvent(w) ==
    /\ pc[w] = "add_event"
    /\ LET id == Len(events) + 1
       IN  /\ events' = Append(events,
                   Event(id, local[w].event_name, local[w].ev_date,
                         None, None, None, None, None))
           /\ local' = [local EXCEPT ![w].event = id]
    /\ pc' = [pc EXCEPT ![w] = "rows"]
    /\ UNCHANGED <<players, results, response, calls, scored>>

\* Lines 250-256 and, for a known player, 262-270: the next row is read,
\* its name stripped and its position parsed (ValueError ends the request),
\* the player is looked up, and the Result of a known player joins the
\* session.
NextRow(w, player_text, position_text) ==
    /\ pc[w] = "rows"
    /\ local[w].row < local[w].nfile
    /\ LET player_name == Strip(player_text)
           position == ParseInt(position_text)
           found == MatchingPlayers(players, player_name)
       IN  IF ~position.ok
           THEN Finish(w, "ValueError")
           ELSE IF found = {}
           THEN /\ pc' = [pc EXCEPT ![w] = "add_player"]
                /\ local' = [local EXCEPT ![w].player_name = player_name,
                                          ![w].position = position.val]
           ELSE \E i \in found :
                    /\ pc' = pc
                    /\ local' = [local EXCEPT
                            ![w].player_name = player_name,
                            ![w].position = position.val,
                            ![w].row = @ + 1,
                            ![w].pending = Append(@,
                                Result(0, local[w].event, players[i].id,
                                       position.val, PointsFor(position.val)))]
    /\ UNCHANGED <<players, events, results, response, calls, scored>>

\* Lines 257-270: the new player is added and committed.  The commit
\* flushes the whole session: the player and the Results pending from the
\* rows before.  A name that a row of players already carries violates the
\* unique index: the flush is rolled back and IntegrityError ends the
\* request.  Otherwise the row's Result joins the session.
AddPlayer(w) ==
    /\ pc[w] = "add_player"
    /\ IF PlayerNameUnique(local[w].player_name, players)
       THEN LET id == Len(players) + 1
            IN  /\ players' = Append(players, Player(id, local[w].player_name))
                /\ results' = Flush(results, local[w].pending)
                /\ pc' = [pc EXCEPT ![w] = "rows"]
                /\ local' = [local EXCEPT
                        ![w].row = @ + 1,
                        ![w].pending =
                            <<Result(0, local[w].event, id, local[w].position,
                                     PointsFor(local[w].position))>>]
       ELSE /\ Finish(w, "IntegrityError")
            /\ UNCHANGED <<players, results>>
    /\ UNCHANGED <<events, response, calls, scored>>

\* Lines 272-274: after the last row the session is committed and the
\* handler redirects to "/".
FinalCommit(w) ==
    /\ pc[w] = "rows"
    /\ local[w].row = local[w].nfile
    /\ results' = Flush(results, local[w].pending)
    /\ Finish(w, "redirect")
    /\ UNCHANGED <<players, events, response, calls, scored>>

\* ---------------------------------------------------------- create_event
\* `x or None`
OrNone(x) == IF x = "" THEN None ELSE x

\* A create_event that inserts only when no event of the identity exists.
CreateEventIfAbsent(name, event_date, meta) ==
    /\ calls < MaxCalls
    /\ calls' = calls + 1
    /\ LET d == ParseDate(event_date)
           id == Len(events) + 1
       IN  IF d.ok /\ MatchingEvents(events, name, d.val) = {}
           THEN events' = Append(events,
                    Event(id, name, d.val, OrNone(meta), OrNone(meta),
                          OrNone(meta), OrNone(meta), OrNone(meta)))
           ELSE events' = events
    /\ response' = [kind |-> None]
    /\ UNCHANGED <<players, results, pc, local, scored>>

\* POST /admin/events/new: one INSERT, committed at once; a date that does
\* not parse raises ValueError before anything is written.
CreateEvent(name, event_date, meta) ==
    /\ calls < MaxCalls
    /\ calls' = calls + 1
    /\ LET d == ParseDate(event_date)
           id == Len(events) + 1
       IN  IF d.ok
           THEN events' = Append(events,
                    Event(id, name, d.val, OrNone(meta), OrNone(meta),
                          OrNone(meta), OrNone(meta), OrNone(meta)))
           ELSE events' = events
    /\ response' = [kind |-> None]
    /\ UNCHANGED <<players, results, pc, local, scored>>

\* -------------------------------------------------------- read_standings
\* GET /: the standings query on the committed tables.
ReadStandings ==
    /\ response' = [kind |-> "standings", standings |-> Standings]
    /\ UNCHANGED <<players, events, results, pc, local, calls, scored>>

\* ----------------------------------------------------------- read_events
\* Comparison of two date values.
DateLess(a, b) ==
    \/ a[1] < b[1]
    \/ a[1] = b[1] /\ a[2] < b[2]
    \/ a[1] = b[1] /\ a[2] = b[2] /\ a[3] < b[3]

\* The ways of listing a set of rows.
RECURSIVE Listings(_)
Listings(rows) ==
    IF rows = {} THEN {<<>>}
    ELSE UNION {{<<r>> \o rest : rest \in Listings(rows \ {r})} : r \in rows}

\* order_by(Event.event_date.asc()): rows of equal date come in any order.
DateAscending(rows) ==
    {l \in Listings(rows) :
        \A i, j \in 1..Len(l) : i < j => ~DateLess(l[j].event_date, l[i].event_date)}

\* order_by(Event.event_date.desc())
DateDescending(rows) ==
    {l \in Listings(rows) :
        \A i, j \in 1..Len(l) : i < j => ~DateLess(l[i].event_date, l[j].event_date)}

\* An upcoming filter that leaves out the events of today.
UpcomingAfterToday(tbl, today) ==
    {e \in Range(tbl) : DateLess(today, e.event_date)}

\* filter(Event.event_date >= today)
UpcomingEvents(tbl, today) ==
    {e \in Range(tbl) : ~DateLess(e.event_date, today)}

\* filter(Event.event_date < today)
PastEvents(tbl, today) ==
    {e \in Range(tbl) : DateLess(e.event_date, today)}

\* GET /events, lines 119-127: today is taken and the upcoming events are
\* queried.
ReadUpcoming(today) ==
    /\ response.kind \notin {"events_upcoming", "detail_found"}
    /\ \E l \in DateAscending(UpcomingEvents(events, today)) :
           response' = [kind |-> "events_upcoming", today |-> today,
                        upcoming_events |-> l]
    /\ UNCHANGED <<players, events, results, pc, local, calls, scored>>

\* GET /events, lines 130-144: the past events are queried and the page is
\* rendered.
ReadPast ==
    /\ response.kind = "events_upcoming"
    /\ \E l \in DateDescending(PastEvents(events, response.today)) :
           response' = [kind |-> "events", today |-> response.today,
                        upcoming_events |-> response.upcoming_events,
                        past_events |-> l]
    /\ UNCHANGED <<players, events, results, pc, local, calls, scored>>

\* ---------------------------------------------------------- event_detail
\* A results query without the event filter.
ResultsOfAnyEvent(rtbl, ptbl, event_id) ==
    {r \in Range(rtbl) : JoinedPlayers(ptbl, r) # {}}

\* query(Result).join(Player).filter(Result.event_id == event_id)
ResultsOfEvent(rtbl, ptbl, event_id) ==
    {r \in Range(rtbl) : r.event_id = event_id /\ JoinedPlayers(ptbl, r) # {}}

\* order_by(Result.position.asc()): rows of equal position come in any order.
PositionAscending(rows) ==
    {l \in Listings(rows) :
        \A i, j \in 1..Len(l) : i < j => l[i].position <= l[j].position}

\* An event lookup that takes a missing event for the first one.
EventByIdOrFirst(tbl, event_id) ==
    IF tbl = <<>> THEN {} ELSE
    IF \E i \in 1..Len(tbl) : tbl[i].id = event_id
    THEN {i \in 1..Len(tbl) : tbl[i].id = event_id} ELSE {1}

\* filter(Event.id == event_id)
EventById(tbl, event_id) == {i \in 1..Len(tbl) : tbl[i].id = event_id}

\* GET /events/{event_id}, lines 151-153: the event is looked up; without
\* it HTTPException(404) ends the request.
DetailFind(event_id) ==
    /\ response.kind \notin {"events_upcoming", "detail_found"}
    /\ LET found == EventById(events, event_id)
       IN  IF found = {}
           THEN response' = [kind |-> "NotFound", event_id |-> event_id]
           ELSE \E e \in found :
                    response' = [kind |-> "detail_found", event_id |-> event_id,
                                 event |-> events[e]]
    /\ UNCHANGED <<players, events, results, pc, local, calls, scored>>

\* Lines 156-171: the results of the event are queried and the page is
\* rendered.
DetailResults ==
    /\ response.kind = "detail_found"
    /\ \E l \in PositionAscending(ResultsOfEvent(results, players, response.event_id)) :
           response' = [kind |-> "event_detail", event_id |-> response.event_id,
                        event |-> response.event, results |-> l]
    /\ UNCHANGED <<players, events, results, pc, local, calls, scored>>

\* --------------------------------------------------------- specifications
UploadArrivesOn(w, names, dates) ==
    \E n \in names, d \in dates, k \in 0..MaxResults : UploadStart(w, n, d, k)

UploadArrives(w) == UploadArrivesOn(w, EventNames, DateTexts)

UploadStepOf(w, player_texts, positions) ==
    \/ FindEvent(w)
    \/ AddEvent(w)
    \/ \E p \in player_texts, q \in positions : NextRow(w, p, q)
    \/ AddPlayer(w)
    \/ FinalCommit(w)

UploadStep(w, positions) == UploadStepOf(w, PlayerTexts, positions)

AdminOf(names, dates, metas) ==
    \E n \in names, d \in dates, m \in metas : CreateEvent(n, d, m)

Admin == AdminOf(EventNames, DateTexts, MetaTexts)

\* One worker process serving one request at a time.
NextSeq ==
    \/ UploadArrives("w1")
    \/ UploadStep("w1", PositionTexts)
    \/ pc["w1"] = "idle" /\ Admin
    \/ pc["w1"] = "idle" /\ ReadStandings

SpecSeq == Init /\ [][NextSeq]_vars

\* One worker process serving uploads while standings are read: the read
\* handlers run on other threads than the upload.
NextRead ==
    \/ UploadArrives("w1")
    \/ UploadStep("w1", PositionTexts)
    \/ ReadStandings

SpecRead == Init /\ [][NextRead]_vars

\* Uploads that arrive at the worker processes before any upload has
\* ended, with administrative creations arriving at any time.
NoUploadEnded == \A w \in Workers : local[w].outcome = None

\* The worker called w1 is the one the first upload arrives at.
FirstAtW1(w) == w = "w1" \/ pc["w1"] # "idle"

NextRace ==
    \/ \E w \in Workers : NoUploadEnded /\ FirstAtW1(w) /\ UploadArrives(w)
    \/ \E w \in Workers : UploadStep(w, RacePositionTexts)
    \/ Admin

SpecRace == Init /\ [][NextRace]_vars

\* A read request is between its two queries.
Reading == response.kind \in {"events_upcoming", "detail_found"}

\* One worker process serving one request at a time, the events page among
\* them.
NextEvents ==
    \/ ~Reading /\ UploadArrivesOn("w1", {"Cup"}, PageDateTexts)
    \/ UploadStepOf("w1", {<<"A">>}, {<<"1">>})
    \/ pc["w1"] = "idle" /\ ~Reading /\ AdminOf({"Cup"}, PageDateTexts, {None})
    \/ pc["w1"] = "idle" /\ \E today \in Todays : ReadUpcoming(today)
    \/ ReadPast

SpecEvents == Init /\ [][NextEvents]_vars

\* One worker process serving one request at a time, the page of an event
\* among them.
NextDetail ==
    \/ ~Reading /\ UploadArrivesOn("w1", {"Cup"}, PageDateTexts)
    \/ UploadStepOf("w1", PagePlayerTexts, PagePositionTexts)
    \/ pc["w1"] = "idle" /\ \E event_id \in 1..(MaxCalls + 1) : DetailFind(event_id)
    \/ DetailResults

SpecDetail == Init /\ [][NextDetail]_vars

\* One worker process serving one upload at a time, with rows whose name is
\* blank or whose position is not positive.
NextSigned ==
    \/ UploadArrives("w1")
    \/ UploadStepOf("w1", BlankPlayerTexts, SignedPositionTexts)

SpecSigned == Init /\ [][NextSigned]_vars

\* One worker process serving one request at a time, every operation among
\* them.
NextLedger ==
    \/ ~Reading /\ UploadArrivesOn("w1", {"Cup"}, PageDateTexts)
    \/ UploadStepOf("w1", {<<"A">>}, {<<"1">>})
    \/ pc["w1"] = "idle" /\ ~Reading /\ AdminOf({"Cup"}, PageDateTexts, {None})
    \/ pc["w1"] = "idle" /\ ~Reading /\ ReadStandings
    \/ pc["w1"] = "idle" /\ ReadUpcoming(<<2024, 5, 1>>)
    \/ ReadPast
    \/ pc["w1"] = "idle" /\ \E event_id \in {1, MaxCalls + 1} : DetailFind(event_id)
    \/ DetailResults

SpecLedger == Init /\ [][NextLedger]_vars

\* One worker process serving one upload at a time, with rows of positions
\* inside and outside the scoring table.
NextPoints ==
    \/ UploadArrivesOn("w1", {"Cup"}, PageDateTexts)
    \/ UploadStepOf("w1", {<<"A">>}, TablePositionTexts)

SpecPoints == Init /\ [][NextPoints]_vars

\* One worker process serving one request at a time: uploads and
\* create_event calls with every form input.
NextAdmin ==
    \/ UploadArrives("w1")
    \/ UploadStepOf("w1", {<<"A">>}, {<<"1">>})
    \/ pc["w1"] = "idle" /\ Admin

SpecAdmin == Init /\ [][NextAdmin]_vars

\* The scoring table on its own: any position may be looked up.
Score(position) ==
    /\ scored' = [position |-> position, points |-> PointsFor(position)]
    /\ UNCHANGED <<players, events, results, pc, local, response, calls>>

NextScore == \E position \in (0 - MaxPos)..MaxPos : Score(position)

SpecScore == Init /\ [][NextScore]_vars

\* ================================================================ claims
\* Rows of a results table that belong to an event.
CountFor(tbl, event_id) == Cardinality({i \in 1..Len(tbl) : tbl[i].event_id = event_id})

\* The step in which w's upload ends.
Ends(w) == pc[w] # "idle" /\ pc'[w] = "idle"

\* C1: when an upload ends with ValueError on a row whose position does not
\* parse, the tables are exactly what they were when the upload arrived.
C1_AtomicOnMalformedRow ==
    [][\A w \in Workers :
          (Ends(w) /\ local'[w].outcome = "ValueError")
              => (players' = local[w].before.players
                  /\ events' = local[w].before.events
                  /\ results' = local[w].before.results)]_vars

\* The tables hold none of the effects of w's running upload, or all of
\* them: its event and one result for each row of its file.
NoneOrAll(w) ==
    \/ db = local[w].before
    \/ /\ local[w].event # 0
       /\ CountFor(results, local[w].event)
            - CountFor(local[w].before.results, local[w].event) = local[w].nfile

\* C2: a standings read that runs while an upload is under way finds the
\* tables with none of the batch's effects or with all of them.
C2_ReadSeesNoPartialBatch ==
    [][(ReadStandings /\ pc["w1"] # "idle") => NoneOrAll("w1")]_vars

\* C3: an upload that ends without an error has added exactly one result
\* row per row of its file to the event it resolved, whether the event
\* existed before or not.
C3_InsertsEveryRow ==
    \A w \in Workers :
        (pc[w] = "idle" /\ local[w].outcome \in {"redirect", "null"})
            => CountFor(results, local[w].event)
                 - CountFor(local[w].before.results, local[w].event) = local[w].nfile

\* Rows of an events table with a name and date.
RowsOfIdentity(tbl, name, ev_date) ==
    {i \in 1..Len(tbl) : tbl[i].name = name /\ tbl[i].event_date = ev_date}

\* The step in which w's upload resolves its event, by lookup or creation.
Resolves(w) == local[w].event = 0 /\ local'[w].event # 0

\* C4: with one request at a time, resolving an event identity yields a
\* row of that identity, creates exactly one row when none existed and
\* none when one did; so a second resolution of an identity first
\* resolved by an upload returns the same identifier and one row remains.
C4_EventResolvedOnce ==
    [][\A w \in Workers :
          Resolves(w) =>
              LET was == RowsOfIdentity(events, local[w].event_name, local[w].ev_date)
                  now == RowsOfIdentity(events', local[w].event_name, local[w].ev_date)
              IN  /\ \E e \in now : events'[e].id = local'[w].event
                  /\ Cardinality(now) = IF was = {} THEN 1 ELSE Cardinality(was)
                  /\ was # {} => events' = events]_vars

\* A second upload of an identity has found the one event that a first
\* upload created (the event has results, so an upload created it).
C4_Witness ==
    /\ local["w1"].outcome = "null"
    /\ \E r \in Range(results) : r.event_id = local["w1"].event
    /\ Cardinality(RowsOfIdentity(events, local["w1"].event_name, local["w1"].ev_date)) = 1

\* C5: no two rows of players carry the same name, and the Result made for
\* a row refers to the player of that row's name, whatever the uploads
\* before or beside it did.
C5_OnePlayerPerName ==
    /\ \A i, j \in 1..Len(players) : players[i].name = players[j].name => i = j
    /\ \A w \in Workers :
           (pc[w] = "rows" /\ local[w].pending # <<>>) =>
               LET r == local[w].pending[Len(local[w].pending)]
               IN  \E i \in 1..Len(players) :
                       players[i].id = r.player_id
                       /\ players[i].name = local[w].player_name

\* Two batches for different events both hold results of the one player
\* row of their shared name.
C5_Witness ==
    \E a, b \in Range(results) :
        /\ a.event_id # b.event_id
        /\ a.player_id = b.player_id
        /\ Cardinality({i \in 1..Len(players) :
                            players[i].name = players[a.player_id].name}) = 1

\* C6: no upload ends with the conflict on the unique index of players.
C6_ConflictNotFatal ==
    \A w \in Workers : local[w].outcome # "IntegrityError"

\* C7: two uploads that have both resolved the same name and date leave at
\* most one row of events with that name and date.
C7_OneEventPerIdentity ==
    \A w, v \in Workers :
        (/\ w # v
         /\ local[w].event # 0
         /\ local[v].event # 0
         /\ local[w].event_name = local[v].event_name
         /\ local[w].ev_date = local[v].ev_date)
            => Cardinality(RowsOfIdentity(events, local[w].event_name,
                                          local[w].ev_date)) <= 1

\* The names of the players that rows of results refer to.
NamesWithResults ==
    {players[i].name : i \in {j \in 1..Len(players) :
                                 \E r \in Range(results) : r.player_id = players[j].id}}

\* The points of all result rows of the player called `name`.
RECURSIVE PointsOfName(_, _)
PointsOfName(name, rows) ==
    IF rows = {} THEN 0
    ELSE LET r == CHOOSE x \in rows : TRUE
             mine == \E i \in 1..Len(players) :
                         players[i].id = r.player_id /\ players[i].name = name
         IN  (IF mine THEN r.points ELSE 0) + PointsOfName(name, rows \ {r})

\* The orders in which a scan may meet the rows of results.
RECURSIVE OrdersOf(_)
OrdersOf(rows) ==
    IF rows = {} THEN {<<>>}
    ELSE UNION {{<<r>> \o rest : rest \in OrdersOf(rows \ {r})} : r \in rows}

ScanOrders == OrdersOf(Range(results))

\* C8: in every state the standings give each listed player the sum of the
\* points of all that player's result rows, run from more points to fewer
\* with equal totals in ascending name order, and are the same whatever
\* order the rows of results are met in.
C8_StandingsTotalsAndOrder ==
    LET st == Standings
    IN  /\ \A i \in 1..Len(st) : st[i][2] = PointsOfName(st[i][1], Range(results))
        /\ \A i, j \in 1..Len(st) :
               i < j => \/ st[i][2] > st[j][2]
                        \/ st[i][2] = st[j][2] /\ TextLess(st[i][1], st[j][1])
        /\ \A scan \in ScanOrders : StandingsOf(players, scan) = st

\* A standings response of the current tables lists two players level on
\* points, the later-inserted one first, and a total summed over two rows.
C8_Witness ==
    /\ response.kind = "standings"
    /\ response.standings = Standings
    /\ Len(response.standings) = 2
    /\ response.standings[1][2] = response.standings[2][2]
    /\ response.standings[1][2] > 0
    /\ players[1].name = response.standings[2][1]
    /\ Len(results) > 2

\* C9: the standings list exactly the players that have a result row, once
\* each, also when all their points are 0.
C9_StandingsMembership ==
    LET st == Standings
    IN  /\ {st[i][1] : i \in 1..Len(st)} = NamesWithResults
        /\ \A i, j \in 1..Len(st) : st[i][1] = st[j][1] => i = j

\* A standings response of the current tables lists a player with 0 points
\* while a row of players without results is left out.
C9_Witness ==
    /\ response.kind = "standings"
    /\ response.standings = Standings
    /\ \E i \in 1..Len(response.standings) : response.standings[i][2] = 0
    /\ \E p \in Range(players) : p.name \notin NamesWithResults

\* C10: a lookup of any position yields the table's value for 1..10 and 0
\* for every other position.
C10_ScoringTable ==
    scored.points # -1 =>
        LET p == scored.position
            v == scored.points
        IN  /\ p = 1 => v = 25
            /\ p = 2 => v = 18
            /\ p = 3 => v = 15
            /\ p = 4 => v = 12
            /\ p = 5 => v = 10
            /\ p = 6 => v = 8
            /\ p = 7 => v = 6
            /\ p = 8 => v = 4
            /\ p = 9 => v = 2
            /\ p = 10 => v = 1
            /\ (p < 1 \/ p > 10) => v = 0

\* A position below 1 has been looked up and scored 0.
C10_Witness == scored.position < 0 /\ scored.points = 0

\* C11: a row whose position is an integer below 1, or whose player name
\* is blank once trimmed, aborts its upload with nothing of the batch
\* kept; so the tables never hold a player of the empty name nor a result
\* of a position below 1.
C11_MalformedRowsRejected ==
    /\ \A p \in Range(players) : p.name # <<>>
    /\ \A r \in Range(results) : r.position >= 1

\* The rows of results that refer to an event.
RowsOfEvent(event_id) == {r \in Range(results) : r.event_id = event_id}

\* C12: the page of an existing event lists exactly the results that refer
\* to that event, each once, in ascending order of position, in whatever
\* order they were inserted.
C12_DetailListsEventByPosition ==
    response.kind = "event_detail" =>
        LET l == response.results
        IN  /\ Range(l) = RowsOfEvent(response.event_id)
            /\ Len(l) = Cardinality(RowsOfEvent(response.event_id))
            /\ \A i \in 1..(Len(l) - 1) : l[i].position <= l[i + 1].position

\* The page of an event lists a result inserted later before one inserted
\* earlier, while another event has results of its own.
C12_Witness ==
    /\ response.kind = "event_detail"
    /\ Len(response.results) = 2
    /\ response.results[1].id > response.results[2].id
    /\ response.results[1].position < response.results[2].position
    /\ \E r \in Range(results) : r.event_id # response.event_id

\* The event lookup of event_detail has just answered.
Looked == response' # response /\ response'.kind \in {"NotFound", "detail_found"}

\* C13: event_detail answers NotFound exactly when no event carries the
\* requested identifier, and then leaves the tables as they were; for an
\* event without results it answers with an empty list.
C13_NotFoundIffAbsent ==
    [][/\ Looked =>
            /\ response'.kind = "NotFound"
                 <=> ~(\E e \in Range(events) : e.id = response'.event_id)
            /\ db' = db
       /\ (response.kind = "detail_found" /\ response'.kind = "event_detail")
            => /\ RowsOfEvent(response'.event_id) = {} => response'.results = <<>>
               /\ db' = db]_vars

\* event_detail has answered NotFound while other events exist.
C13_Witness ==
    /\ response.kind = "NotFound"
    /\ events # <<>>
    /\ \A e \in Range(events) : e.id # response.event_id

\* A number that grows with the calendar date.
DayNumber(d) == (d[1] * 12 + d[2]) * 31 + d[3]

\* C14: whatever the tables and the current date, the events page puts
\* every event into exactly one of its two lists: the events dated today
\* or later into the upcoming list, earliest first, and the events dated
\* before today into the past list, latest first.
C14_EventsPartitionedByToday ==
    response.kind = "events" =>
        LET up == response.upcoming_events
            past == response.past_events
            now == DayNumber(response.today)
        IN  /\ Range(up) = {e \in Range(events) : DayNumber(e.event_date) >= now}
            /\ Range(past) = {e \in Range(events) : DayNumber(e.event_date) < now}
            /\ Len(up) + Len(past) = Len(events)
            /\ \A i \in 1..(Len(up) - 1) :
                   DayNumber(up[i].event_date) <= DayNumber(up[i + 1].event_date)
            /\ \A i \in 1..(Len(past) - 1) :
                   DayNumber(past[i].event_date) >= DayNumber(past[i + 1].event_date)

\* The events page lists an event dated today as upcoming and an earlier
\* one as past.
C14_Witness ==
    /\ response.kind = "events"
    /\ \E i \in 1..Len(response.upcoming_events) :
           response.upcoming_events[i].event_date = response.today
    /\ response.past_events # <<>>

\* The form texts that are calendar dates.
CalendarDateTexts == {d \in DateTexts : ParseDate(d).ok}

\* C15: a create_event call given a calendar date adds exactly one row to
\* events, of an identifier no row had, of the name and date given,
\* whether or not an event of that name and date exists; the rows of
\* events, players and results that existed stay as they were.
C15_AdminAlwaysInserts ==
    [][\A n \in EventNames, d \in CalendarDateTexts, m \in MetaTexts :
          (pc' = pc /\ local' = local /\ calls' # calls /\ CreateEvent(n, d, m)) =>
              /\ Len(events') = Len(events) + 1
              /\ SubSeq(events', 1, Len(events)) = events
              /\ \A e \in Range(events) : e.id # events'[Len(events')].id
              /\ events'[Len(events')].name = n
              /\ events'[Len(events')].event_date = ParseDate(d).val
              /\ players' = players
              /\ results' = results]_vars

\* Two create_event calls of one name and date have left two events.
C15_Witness ==
    /\ Len(events) = 2
    /\ events[1].name = events[2].name
    /\ events[1].event_date = events[2].event_date
    /\ events[1].id # events[2].id
    /\ events[1].start_time # None
    /\ events[2].start_time # None

\* Worker w has taken a row of its file into a Result.
Consumes(w) == pc[w] \in {"rows", "add_player"} /\ local'[w].row = local[w].row + 1

\* The identifiers of the players of a name.
IdsOfName(tbl, name) == {p.id : p \in {q \in Range(tbl) : q.name = name}}

\* An earlier row of w's running batch carried the name: a Result of the
\* batch, committed or pending, refers to a player of it.
SeenInBatch(w, name) ==
    \E r \in Range(results) \cup Range(local[w].pending) :
        r.event_id = local[w].event /\ r.player_id \in IdsOfName(players, name)

\* C16: with one request at a time, a row whose name an earlier row of the
\* same batch carried finds the player made for that row: no player is
\* added, one player of the name exists and the row's Result refers to it;
\* no upload ends on the unique index, and an upload that ends with the
\* redirect has one Result per row for its event, rows of one name
\* included.
C16_DuplicateNameInBatch ==
    [][\A w \in Workers :
          /\ (Consumes(w) /\ SeenInBatch(w, local'[w].player_name)) =>
                 LET made == local'[w].pending[Len(local'[w].pending)]
                 IN  /\ players' = players
                     /\ IdsOfName(players', local'[w].player_name) = {made.player_id}
                     /\ made.event_id = local[w].event
          /\ Ends(w) => local'[w].outcome # "IntegrityError"
          /\ (Ends(w) /\ local'[w].outcome = "redirect")
                 => CountFor(results', local[w].event) = local[w].nfile]_vars

\* An upload of two rows of one name has ended with the redirect: its
\* event has two results, both of the one player of that name.
C16_Witness ==
    /\ local["w1"].outcome = "redirect"
    /\ local["w1"].nfile = 2
    /\ \E i, j \in 1..Len(results) :
           /\ i # j
           /\ results[i].event_id = local["w1"].event
           /\ results[j].event_id = local["w1"].event
           /\ results[i].player_id = results[j].player_id
           /\ \E p \in Range(players) :
                  /\ p.id = results[i].player_id
                  /\ Cardinality(IdsOfName(players, p.name)) = 1

\* The rows of a table are the first rows of another.
IsPrefix(old, new) == Len(old) <= Len(new) /\ SubSeq(new, 1, Len(old)) = old

\* C17: in every step of every operation the committed rows of players,
\* events and results stay, unchanged and in place; rows of results are
\* added only by a step of an upload, to the event of that upload, and
\* never more of them than rows of its file have been read.
C17_AppendOnlyLedger ==
    [][/\ IsPrefix(players, players')
       /\ IsPrefix(events, events')
       /\ IsPrefix(results, results')
       /\ results' # results =>
              \E w \in Workers :
                  /\ pc[w] \in {"add_player", "rows"}
                  /\ \A i \in (Len(results) + 1)..Len(results') :
                         results'[i].event_id = local[w].event
                  /\ CountFor(results', local[w].event)
                       + Len(local'[w].pending) = local'[w].row]_vars

\* Two events have results, and afterwards the standings, the events page
\* and the page of an event have been read in turn.
C17_Witness ==
    /\ response.kind = "event_detail"
    /\ \E i, j \in 1..Len(results) : results[i].event_id # results[j].event_id

\* C18: with one request at a time, an upload whose name and date match an
\* existing event ends with the table of events exactly as it was when
\* the upload arrived, the matched row with its identifier, name, date and
\* descriptive fields included; an upload that matches none adds one row
\* whose five descriptive fields are all unset.
C18_UploadLeavesMatchedEvent ==
    [][\A w \in Workers :
          /\ (Ends(w) /\ local'[w].outcome = "null") =>
                 /\ events' = local[w].before.events
                 /\ \E e \in Range(events') :
                        /\ e.id = local'[w].event
                        /\ e.name = local[w].event_name
                        /\ e.event_date = local[w].ev_date
          /\ (pc[w] = "add_event" /\ pc'[w] # "add_event") =>
                 /\ IsPrefix(events, events')
                 /\ Len(events') = Len(events) + 1
                 /\ LET e == events'[Len(events')]
                    IN  /\ e.id = local'[w].event
                        /\ e.start_time = None
                        /\ e.location = None
                        /\ e.format = None
                        /\ e.registration_url = None
                        /\ e.description = None]_vars

\* An upload has matched an event that create_event made with descriptive
\* fields, and the event still carries them.
C18_Witness ==
    /\ local["w1"].outcome = "null"
    /\ \E e \in Range(events) :
           /\ e.id = local["w1"].event
           /\ e.start_time # None
           /\ e.description # None

\* The points the scoring table gives a position.
TablePoints(p) ==
    CASE p = 1 -> 25 [] p = 2 -> 18 [] p = 3 -> 15 [] p = 4 -> 12
      [] p = 5 -> 10 [] p = 6 -> 8 [] p = 7 -> 6 [] p = 8 -> 4
      [] p = 9 -> 2 [] p = 10 -> 1 [] OTHER -> 0

\* C19: every row of results carries the points the scoring table gives
\* its position, hence one of 0, 1, 2, 4, 6, 8, 10, 12, 15, 18 and 25, and
\* no total of the standings is negative.
C19_StoredPointsFollowTable ==
    /\ \A r \in Range(results) :
           /\ r.points = TablePoints(r.position)
           /\ r.points \in {0, 1, 2, 4, 6, 8, 10, 12, 15, 18, 25}
    /\ \A i \in 1..Len(Standings) : Standings[i][2] >= 0

\* The table holds a row of the last scoring position with its 1 point and
\* a row of a position outside the table with 0 points.
C19_Witness ==
    /\ \E r \in Range(results) : r.position = 10 /\ r.points = 1
    /\ \E r \in Range(results) : r.position = 11 /\ r.points = 0
    /\ \E r \in Range(results) : r.position = 1 /\ r.points = 25

\* C20: in every committed state, under any interleaving of uploads and
\* create_event calls and after uploads that failed part-way, every row of
\* results refers to an existing event and to an existing player.
C20_ResultsReferToExistingRows ==
    \A r \in Range(results) :
        /\ \E e \in Range(events) : e.id = r.event_id
        /\ \E p \in Range(players) : p.id = r.player_id

\* An upload has failed part-way with a result of its event committed,
\* while the upload of the other worker is under way.
C20_Witness ==
    \E w \in Workers :
        /\ pc[w] = "idle"
        /\ local[w].outcome \in {"ValueError", "IntegrityError"}
        /\ \E r \in Range(results) : r.event_id = local[w].event
        /\ pc[CHOOSE v \in Workers : v # w] # "idle"

====
